---- MODULE Spec2Model ----
(***************************************************************************)
(* Model of src/src/problemamatris.py: the two encoder variants            *)
(* (get_value_optimized_pure, get_value_simd_optimized), the verification  *)
(* run of main (verify_mathematical_formula, performance_benchmark),       *)
(* batch_search, read_coordinates_from_file and interactive_search.         *)
(***************************************************************************)
EXTENDS Integers, Sequences, FiniteSets, TLC

VARIABLES
    \* encoder calls
    row, col, ref, alt,
    \* batch_search
    coordenadas_lista, idx, salida, retorno, bpc,
    \* read_coordinates_from_file
    file_exists, lines, line_num, coordenadas, reportes, fpc,
    \* main without arguments: verify_mathematical_formula, performance_benchmark
    vpc, vk, all_correct, stdout, test_coords, calls_pure, calls_simd,
    \* interactive_search
    entradas, ipos, ipc, ifila, ultimo, icalls, eofs

encVars   == <<row, col, ref, alt>>
batchVars == <<coordenadas_lista, idx, salida, retorno, bpc>>
fileVars  == <<file_exists, lines, line_num, coordenadas, reportes, fpc>>
mainVars  == <<vpc, vk, all_correct, stdout, test_coords, calls_pure, calls_simd>>
interVars == <<entradas, ipos, ipc, ifila, ultimo, icalls, eofs>>
vars      == <<encVars, batchVars, fileVars, mainVars, interVars>>

----------------------------------------------------------------------------
\* Bounds of the model

MaxRow == 135
MaxCol == 47

\* longest list handed to batch_search
MaxBatch == 3

\* most lines in a coordinate file
MaxLines == 3

\* the benchmark's random coordinates: how many are drawn (10000 in the
\* source) and from which ranges (rows 0..1000, columns 0..100 in the source)
BenchCount == 2
BenchMaxRow == 1
BenchMaxCol == 6

\* most inputs typed before the input stream ends
MaxInputs == 3

\* the count of EOFError handled stops growing here (the loop goes on)
MaxEofs == 2

----------------------------------------------------------------------------
\* Python integer operators on unbounded two's-complement integers

\* a & b for b >= 0 (any integer a)
RECURSIVE BitAnd(_, _)
BitAnd(a, b) ==
    IF b = 0 THEN 0
    ELSE (a % 2) * (b % 2) + 2 * BitAnd(a \div 2, b \div 2)

\* a ^ b for a, b >= 0
RECURSIVE BitXor(_, _)
BitXor(a, b) ==
    IF a = 0 /\ b = 0 THEN 0
    ELSE (((a % 2) + (b % 2)) % 2) + 2 * BitXor(a \div 2, b \div 2)

RECURSIVE Pow2(_)
Pow2(n) == IF n = 0 THEN 1 ELSE 2 * Pow2(n - 1)

\* a >> n  (floor division, also for negative a)
ShiftRight(a, n) == a \div Pow2(n)

\* a << n
ShiftLeft(a, n) == a * Pow2(n)

\* a Python bool used as an integer
Bool2Int(b) == IF b THEN 1 ELSE 0

abs(x) == IF x < 0 THEN -x ELSE x

min(a, b) == IF a <= b THEN a ELSE b

\* final "& 0xFF" without the mask
mask_byte_unmasked(x) == x

\* final "& 0xFF"
mask_byte(x) == BitAnd(x, 255)

----------------------------------------------------------------------------
\* get_value_optimized_pure

\* col & 15 instead of col & 7
local_col_mask15(c) == BitAnd(c, 15)

local_col(c) == BitAnd(c, 7)

local_row(r) == BitAnd(r, 7)

block_row(r) == ShiftRight(r, 3)

col_block(c) == ShiftRight(c, 3)

even_base(lc) == 1 + 2 * ShiftRight(lc, 2)

\* mask_2 dropped: only quarter 1 counts
odd_base_quarter1_only(lc) == 2 * (1 - min(1, abs(ShiftRight(lc, 1) - 1)))

odd_base(lc) ==
    LET col_quarter == ShiftRight(lc, 1)
        mask_1 == 1 - min(1, abs(col_quarter - 1))
        mask_2 == 1 - min(1, abs(col_quarter - 2))
    IN  2 * (mask_1 + mask_2)

\* base_value before the column-7 correction
blended_base(lc) ==
    LET is_even_col == 1 - BitAnd(lc, 1)
        is_odd_col  == BitAnd(lc, 1)
    IN  is_even_col * even_base(lc) + is_odd_col * odd_base(lc)

\* base_value after the column-7 correction
base_value(lc) ==
    LET blended == blended_base(lc)
        col7_correction == Bool2Int(lc = 7) * blended
    IN  blended - col7_correction

\* (local_row >> 2) << 2 instead of << 3
row_offset_shift2(lr) ==
    ShiftLeft(BitAnd(lr, 1), 2) + ShiftLeft(ShiftRight(lr, 2), 2)

row_offset(lr) ==
    ShiftLeft(BitAnd(lr, 1), 2) + ShiftLeft(ShiftRight(lr, 2), 3)

\* block_row << 3 instead of block_row << 4
block_offset_shift3(br) == ShiftLeft(br, 3)

block_offset(br) == ShiftLeft(br, 4)

\* the column-block test dropped: every column with local_col = 7
is_col_15_any_block(cb, lc) == Bool2Int(lc = 7)

is_col_15(cb, lc) == Bool2Int((cb = 1) /\ (lc = 7))

\* col15_adjustment dropped
special_value_no_adjustment(lr) == 4 + 8 * ShiftRight(lr, 2)

special_value(lr) ==
    LET is_second_half == ShiftRight(lr, 2)
        col15_base == 4 + 8 * is_second_half
        row_in_half == BitAnd(lr, 3)
        is_row_odd_in_half == BitAnd(row_in_half, 1)
        is_second_pos_in_half == BitAnd(ShiftRight(row_in_half, 1), 1)
        col15_adjustment == is_row_odd_in_half * (-4 + 8 * is_second_pos_in_half)
    IN  col15_base + col15_adjustment

normal_result(r, c) ==
    base_value(local_col(c)) + row_offset(local_row(r)) + block_offset(block_row(r))

\* block_offset left out of the column-15 value
special_result_no_block(r) == special_value(local_row(r))

special_result(r) == special_value(local_row(r)) + block_offset(block_row(r))

final_result(r, c) ==
    LET sel == is_col_15(col_block(c), local_col(c))
    IN  normal_result(r, c) * (1 - sel) + special_result(r) * sel

get_value_optimized_pure(r, c) == mask_byte(final_result(r, c))

----------------------------------------------------------------------------
\* get_value_simd_optimized

simd_base(c3) ==
    LET c_even == BitXor(BitAnd(c3, 1), 1)
        q == ShiftRight(c3, 1)
        h == ShiftRight(c3, 2)
    IN  c_even * (1 + 2 * h - 2 * Bool2Int(q = 3))
          + BitAnd(c3, 1) * (2 * BitAnd(q, 1) * BitXor(h, 1))

simd_r_off(r3) ==
    ShiftLeft(BitAnd(r3, 1), 2) + ShiftLeft(BitAnd(r3, 4), 1)

simd_special(r3) ==
    4 + 8 * ShiftRight(r3, 2)
      - 4 * BitAnd(r3, 1) * BitXor(ShiftRight(r3, 2), 1)
      + 4 * BitAnd(ShiftRight(r3, 2), BitXor(BitAnd(r3, 1), 1))

simd_result(r, c) ==
    LET r3 == BitAnd(r, 7)
        c3 == BitAnd(c, 7)
        rb == ShiftRight(r, 3)
        cb == ShiftRight(c, 3)
        b_off == ShiftLeft(rb, 4)
        col15_mask == Bool2Int((cb = 1) /\ (c3 = 7))
    IN  (simd_base(c3) + simd_r_off(r3) + b_off) * BitXor(col15_mask, 1)
          + (simd_special(r3) + b_off) * col15_mask

get_value_simd_optimized(r, c) == mask_byte(simd_result(r, c))

----------------------------------------------------------------------------
\* batch_search

\* Python values that can stand in an entry of coordenadas_lista
PyInt(n) == [kind |-> "int", val |-> n]

\* the float 1.5
PyFloat == [kind |-> "float", val |-> 1]

\* the string 'a'
PyStr == [kind |-> "str", val |-> 0]

is_int(v) == v.kind = "int"

\* what a call returns: nothing yet, None, or a list
NotReturned == [is_none |-> FALSE, returned |-> FALSE, items |-> <<>>]

ReturnNone == [is_none |-> TRUE, returned |-> TRUE, items |-> <<>>]

\* "col & 7" / "row & 7" raise TypeError on a float or a str
encoder_raises(fila, columna) == ~is_int(columna) \/ ~is_int(fila)

\* the format code "d" raises ValueError on a float or a str
format_d_raises(v) == ~is_int(v)

\* the except handler's own print raises: the exception leaves batch_search
handler_raises(fila, columna) ==
    encoder_raises(fila, columna)
      /\ (format_d_raises(fila) \/ format_d_raises(columna))

\* the encoder called with the arguments swapped
batch_line_swapped(fila, columna) ==
    IF encoder_raises(fila, columna)
    THEN [tipo |-> "ERROR", fila |-> fila.val, columna |-> columna.val, valor |-> 0]
    ELSE [tipo |-> "valor", fila |-> fila.val, columna |-> columna.val,
          valor |-> get_value_optimized_pure(columna.val, fila.val)]

\* the line one iteration of the loop prints
batch_line(fila, columna) ==
    IF encoder_raises(fila, columna)
    THEN [tipo |-> "ERROR", fila |-> fila.val, columna |-> columna.val, valor |-> 0]
    ELSE [tipo |-> "valor", fila |-> fila.val, columna |-> columna.val,
          valor |-> get_value_optimized_pure(fila.val, columna.val)]

\* the two header lines
batch_header == [tipo |-> "header", fila |-> 0, columna |-> 0, valor |-> 0]

\* entries batch_search is called with (a non-empty list, as main passes):
\* valid pairs, pairs with a negative
\* coordinate, pairs with a non-integer coordinate
BatchEntries ==
    { <<PyInt(0), PyInt(0)>>, <<PyInt(1), PyInt(1)>>, <<PyInt(2), PyInt(2)>>,
      <<PyInt(9), PyInt(15)>>,
      <<PyInt(-1), PyInt(3)>>, <<PyInt(3), PyInt(-1)>>,
      <<PyFloat, PyInt(2)>>, <<PyInt(2), PyStr>> }

BatchInit ==
    /\ coordenadas_lista \in UNION { [1..n -> BatchEntries] : n \in 1..MaxBatch }
    /\ idx = 1
    /\ salida = <<>>
    /\ retorno = NotReturned
    /\ bpc = "start"

BatchStart ==
    /\ bpc = "start"
    /\ salida' = <<batch_header, batch_header>>
    /\ bpc' = "loop"
    /\ UNCHANGED <<coordenadas_lista, idx, retorno, encVars, fileVars, mainVars, interVars>>

\* one iteration that prints its line (the value, or ERROR from the handler)
BatchEntry ==
    /\ bpc = "loop"
    /\ idx <= Len(coordenadas_lista)
    /\ LET fila == coordenadas_lista[idx][1]
           columna == coordenadas_lista[idx][2]
       IN  /\ ~handler_raises(fila, columna)
           /\ salida' = Append(salida, batch_line(fila, columna))
    /\ idx' = idx + 1
    /\ UNCHANGED <<coordenadas_lista, retorno, bpc, encVars, fileVars, mainVars, interVars>>

\* one iteration whose handler raises: the exception ends batch_search
BatchAbort ==
    /\ bpc = "loop"
    /\ idx <= Len(coordenadas_lista)
    /\ handler_raises(coordenadas_lista[idx][1], coordenadas_lista[idx][2])
    /\ bpc' = "raised"
    /\ UNCHANGED <<coordenadas_lista, idx, salida, retorno, encVars, fileVars, mainVars, interVars>>

\* the loop is exhausted: the function ends without a return statement
BatchReturn ==
    /\ bpc = "loop"
    /\ idx > Len(coordenadas_lista)
    /\ retorno' = ReturnNone
    /\ bpc' = "done"
    /\ UNCHANGED <<coordenadas_lista, idx, salida, encVars, fileVars, mainVars, interVars>>

----------------------------------------------------------------------------
\* read_coordinates_from_file.  A line is a sequence of characters.

IsSpace(ch) == ch \in {" ", "\t", "\n"}

RECURSIVE lstrip(_)
lstrip(s) ==
    IF s = <<>> THEN s
    ELSE IF IsSpace(Head(s)) THEN lstrip(Tail(s)) ELSE s

RECURSIVE rstrip(_)
rstrip(s) ==
    IF s = <<>> THEN s
    ELSE IF IsSpace(s[Len(s)]) THEN rstrip(SubSeq(s, 1, Len(s) - 1)) ELSE s

\* the line left as read
strip_nothing(s) == s

\* str.strip()
strip(s) == rstrip(lstrip(s))

\* line.startswith('#')
startswith_hash(s) == Len(s) > 0 /\ s[1] = "#"

\* ',' in line
has_comma(s) == \E i \in 1..Len(s) : s[i] = ","

\* line.split(',', 1) of a line with a comma
split_comma(s) ==
    LET i == CHOOSE k \in 1..Len(s) : s[k] = "," /\ \A j \in 1..(k - 1) : s[j] # ","
    IN  <<SubSeq(s, 1, i - 1), SubSeq(s, i + 1, Len(s))>>

Digits == {"0", "1", "2", "3", "4", "5", "6", "7", "8", "9"}

DigitVal(ch) ==
    CASE ch = "0" -> 0 [] ch = "1" -> 1 [] ch = "2" -> 2 [] ch = "3" -> 3
      [] ch = "4" -> 4 [] ch = "5" -> 5 [] ch = "6" -> 6 [] ch = "7" -> 7
      [] ch = "8" -> 8 [] ch = "9" -> 9

\* digits with single underscores between them
int_body_ok(d) ==
    /\ Len(d) > 0
    /\ \A i \in 1..Len(d) : d[i] \in Digits \cup {"_"}
    /\ d[1] # "_" /\ d[Len(d)] # "_"
    /\ \A i \in 1..(Len(d) - 1) : ~(d[i] = "_" /\ d[i + 1] = "_")

RECURSIVE int_body_val(_, _)
int_body_val(d, acc) ==
    IF d = <<>> THEN acc
    ELSE IF Head(d) = "_" THEN int_body_val(Tail(d), acc)
    ELSE int_body_val(Tail(d), 10 * acc + DigitVal(Head(d)))

\* int(text), which ignores surrounding whitespace: ok is FALSE where int
\* raises ValueError
py_int(text) ==
    LET t == rstrip(lstrip(text))
        signed == Len(t) > 0 /\ t[1] \in {"+", "-"}
        d == IF signed THEN Tail(t) ELSE t
    IN  IF int_body_ok(d)
        THEN [ok |-> TRUE,
              val |-> IF signed /\ t[1] = "-" THEN 0 - int_body_val(d, 0)
                      ELSE int_body_val(d, 0)]
        ELSE [ok |-> FALSE, val |-> 0]

\* what the loop body does with a stripped line: "skip", "append" or "report"
line_outcome(line) ==
    IF line = <<>> \/ startswith_hash(line) THEN "skip"
    ELSE IF ~has_comma(line) THEN "report"
    ELSE IF py_int(split_comma(line)[1]).ok /\ py_int(split_comma(line)[2]).ok
         THEN "append"
         ELSE "report"

line_pair(line) ==
    <<py_int(split_comma(line)[1]).val, py_int(split_comma(line)[2]).val>>

\* the lines a file is made of, each with the treatment the format
\* description gives it
FileLineTable ==
    { [text |-> <<>>, expect |-> "skip", fila |-> 0, columna |-> 0],
      [text |-> <<" ", "\n">>, expect |-> "skip", fila |-> 0, columna |-> 0],
      [text |-> <<"#", "1", ",", "2", "\n">>, expect |-> "skip", fila |-> 0, columna |-> 0],
      [text |-> <<" ", "#", "x", "\n">>, expect |-> "skip", fila |-> 0, columna |-> 0],
      [text |-> <<"1", ",", "2", "\n">>, expect |-> "pair", fila |-> 1, columna |-> 2],
      [text |-> <<" ", "3", " ", ",", " ", "1", "5", " ", "\n">>, expect |-> "pair",
       fila |-> 3, columna |-> 15],
      [text |-> <<"-", "1", ",", "3">>, expect |-> "pair", fila |-> 0 - 1, columna |-> 3],
      [text |-> <<"1", ",", "2", ",", "3", "\n">>, expect |-> "malformed",
       fila |-> 0, columna |-> 0],
      [text |-> <<"1", "2", "\n">>, expect |-> "malformed", fila |-> 0, columna |-> 0],
      [text |-> <<"x", ",", "1", "\n">>, expect |-> "malformed", fila |-> 0, columna |-> 0],
      [text |-> <<"1", ",", "\n">>, expect |-> "malformed", fila |-> 0, columna |-> 0] }

FileLines == { r.text : r \in FileLineTable }

FileInit ==
    /\ file_exists \in BOOLEAN
    /\ lines \in IF file_exists
                 THEN UNION { [1..n -> FileLines] : n \in 0..MaxLines }
                 ELSE {<<>>}
    /\ line_num = 0
    /\ coordenadas = <<>>
    /\ reportes = <<>>
    /\ fpc = "open"

\* open(filename) succeeds
FileOpen ==
    /\ fpc = "open" /\ file_exists
    /\ fpc' = "loop"
    /\ UNCHANGED <<file_exists, lines, line_num, coordenadas, reportes,
                   encVars, batchVars, mainVars, interVars>>

\* open(filename) raises FileNotFoundError: the message, and [] returned
FileNotFound ==
    /\ fpc = "open" /\ ~file_exists
    /\ reportes' = <<[tipo |-> "no encontrado", line_num |-> 0, line |-> <<>>]>>
    /\ coordenadas' = <<>>
    /\ fpc' = "done"
    /\ UNCHANGED <<file_exists, lines, line_num, encVars, batchVars, mainVars, interVars>>

\* a blank line or a '#' line
ReadSkip ==
    /\ fpc = "loop" /\ line_num < Len(lines)
    /\ line_outcome(strip(lines[line_num + 1])) = "skip"
    /\ line_num' = line_num + 1
    /\ UNCHANGED <<file_exists, lines, coordenadas, reportes, fpc,
                   encVars, batchVars, mainVars, interVars>>

\* a line int,int
ReadPair ==
    /\ fpc = "loop" /\ line_num < Len(lines)
    /\ line_outcome(strip(lines[line_num + 1])) = "append"
    /\ coordenadas' = Append(coordenadas, line_pair(strip(lines[line_num + 1])))
    /\ line_num' = line_num + 1
    /\ UNCHANGED <<file_exists, lines, reportes, fpc, encVars, batchVars, mainVars, interVars>>

\* a line without a comma, or one on which int raises ValueError
ReadIgnored ==
    /\ fpc = "loop" /\ line_num < Len(lines)
    /\ line_outcome(strip(lines[line_num + 1])) = "report"
    /\ reportes' = Append(reportes, [tipo |-> "ignorada", line_num |-> line_num + 1,
                                     line |-> strip(lines[line_num + 1])])
    /\ line_num' = line_num + 1
    /\ UNCHANGED <<file_exists, lines, coordenadas, fpc, encVars, batchVars, mainVars, interVars>>

\* end of file: return coordenadas
FileReturn ==
    /\ fpc = "loop" /\ line_num = Len(lines)
    /\ fpc' = "done"
    /\ UNCHANGED <<file_exists, lines, line_num, coordenadas, reportes,
                   encVars, batchVars, mainVars, interVars>>

----------------------------------------------------------------------------
\* main without arguments: verify_mathematical_formula, performance_benchmark

test_cases ==
    << <<0, 0, 1>>, <<0, 1, 0>>, <<0, 2, 1>>, <<0, 7, 0>>, <<0, 15, 4>>,
       <<1, 0, 5>>, <<1, 1, 4>>, <<1, 15, 0>>,
       <<2, 0, 1>>, <<2, 15, 4>>,
       <<3, 0, 5>>, <<3, 15, 8>>,
       <<4, 0, 9>>, <<4, 15, 12>>,
       <<5, 0, 13>>, <<5, 15, 8>>,
       <<6, 0, 9>>, <<6, 15, 12>>,
       <<7, 0, 13>>, <<7, 15, 16>>,
       <<8, 0, 17>>, <<8, 15, 20>>,
       <<15, 15, 32>> >>

extrapolation_cases == << <<50, 10>>, <<100, 15>>, <<200, 5>>, <<1000, 7>> >>

\* a printed line of fixed text
texto(t) == [tipo |-> t, row |-> 0, col |-> 0, expected |-> 0, result |-> 0, ok |-> TRUE]

\* a call of a variant, with the byte it returned
call(r, c, v) == [row |-> r, col |-> c, value |-> v]

BenchCoords == (0..BenchMaxRow) \X (0..BenchMaxCol)

MainInit ==
    /\ vpc = "start"
    /\ vk = 1
    /\ all_correct = TRUE
    /\ stdout = <<>>
    /\ test_coords = <<>>
    /\ calls_pure = {}
    /\ calls_simd = {}

\* main's banner and the head of verify_mathematical_formula
MainStart ==
    /\ vpc = "start"
    /\ stdout' = <<texto("TAGSHELF"), texto("Funcion matematica"),
                   texto("Verificando"), texto("encabezado"), texto("regla")>>
    /\ vpc' = "verify"
    /\ UNCHANGED <<vk, all_correct, test_coords, calls_pure, calls_simd,
                   encVars, batchVars, fileVars, interVars>>

\* one iteration over test_cases
VerifyCase ==
    /\ vpc = "verify" /\ vk <= Len(test_cases)
    /\ LET r == test_cases[vk][1]
           c == test_cases[vk][2]
           expected == test_cases[vk][3]
           result == get_value_optimized_pure(r, c)
       IN  /\ all_correct' = (IF result # expected THEN FALSE ELSE all_correct)
           /\ stdout' = Append(stdout, [tipo |-> "caso", row |-> r, col |-> c,
                                        expected |-> expected, result |-> result,
                                        ok |-> (result = expected)])
           /\ calls_pure' = calls_pure \cup {call(r, c, result)}
    /\ vk' = vk + 1
    /\ UNCHANGED <<vpc, test_coords, calls_simd, encVars, batchVars, fileVars, interVars>>

\* "Resultado: CORRECTO" or "Resultado: ERROR", and the extrapolation's head
VerifyResultado ==
    /\ vpc = "verify" /\ vk > Len(test_cases)
    /\ stdout' = stdout \o <<texto(IF all_correct THEN "CORRECTO" ELSE "ERROR"),
                             texto("Extrapolacion"), texto("encabezado"),
                             texto("regla")>>
    /\ vpc' = "extrap"
    /\ vk' = 1
    /\ UNCHANGED <<all_correct, test_coords, calls_pure, calls_simd,
                   encVars, batchVars, fileVars, interVars>>

\* one iteration over extrapolation_cases
Extrapolate ==
    /\ vpc = "extrap" /\ vk <= Len(extrapolation_cases)
    /\ LET r == extrapolation_cases[vk][1]
           c == extrapolation_cases[vk][2]
           result == get_value_optimized_pure(r, c)
       IN  /\ stdout' = Append(stdout, [tipo |-> "extrapolacion", row |-> r,
                                        col |-> c, expected |-> 0,
                                        result |-> result, ok |-> TRUE])
           /\ calls_pure' = calls_pure \cup {call(r, c, result)}
    /\ vk' = vk + 1
    /\ UNCHANGED <<vpc, all_correct, test_coords, calls_simd,
                   encVars, batchVars, fileVars, interVars>>

\* performance_benchmark begins: the random coordinates are drawn
BenchStart ==
    /\ vpc = "extrap" /\ vk > Len(extrapolation_cases)
    /\ stdout' = stdout \o <<texto(""), texto("Benchmark")>>
    /\ test_coords' \in [1..BenchCount -> BenchCoords]
    /\ vpc' = "bench_pure"
    /\ vk' = 1
    /\ UNCHANGED <<all_correct, calls_pure, calls_simd, encVars, batchVars, fileVars, interVars>>

\* the first timed loop: the reference on every coordinate, result dropped
BenchPure ==
    /\ vpc = "bench_pure" /\ vk <= Len(test_coords)
    /\ calls_pure' = calls_pure \cup
          {call(test_coords[vk][1], test_coords[vk][2],
                get_value_optimized_pure(test_coords[vk][1], test_coords[vk][2]))}
    /\ vk' = vk + 1
    /\ UNCHANGED <<vpc, all_correct, stdout, test_coords, calls_simd,
                   encVars, batchVars, fileVars, interVars>>

BenchPureEnd ==
    /\ vpc = "bench_pure" /\ vk > Len(test_coords)
    /\ vpc' = "bench_simd"
    /\ vk' = 1
    /\ UNCHANGED <<all_correct, stdout, test_coords, calls_pure, calls_simd,
                   encVars, batchVars, fileVars, interVars>>

\* the second timed loop: the alternate on every coordinate, result dropped
BenchSimd ==
    /\ vpc = "bench_simd" /\ vk <= Len(test_coords)
    /\ calls_simd' = calls_simd \cup
          {call(test_coords[vk][1], test_coords[vk][2],
                get_value_simd_optimized(test_coords[vk][1], test_coords[vk][2]))}
    /\ vk' = vk + 1
    /\ UNCHANGED <<vpc, all_correct, stdout, test_coords, calls_pure,
                   encVars, batchVars, fileVars, interVars>>

\* the three timing lines; main returns
BenchPrint ==
    /\ vpc = "bench_simd" /\ vk > Len(test_coords)
    /\ stdout' = stdout \o <<texto("tiempo optimizada"), texto("tiempo SIMD"),
                             texto("velocidad")>>
    /\ vpc' = "done"
    /\ UNCHANGED <<vk, all_correct, test_coords, calls_pure, calls_simd,
                   encVars, batchVars, fileVars, interVars>>

----------------------------------------------------------------------------
\* interactive_search.  An input event is a typed line (without its newline)
\* or an exception raised by input().

typed(t) == [tipo |-> "texto", text |-> t]

KeyboardInterrupt == [tipo |-> "KeyboardInterrupt", text |-> <<>>]

\* input() at the end of the input stream
EOFError == [tipo |-> "EOFError", text |-> <<>>]

\* str.lower() on the letters the inputs use
lower_char(ch) ==
    CASE ch = "Q" -> "q" [] ch = "U" -> "u" [] ch = "I" -> "i" [] ch = "T" -> "t"
      [] ch = "E" -> "e" [] ch = "X" -> "x" [] OTHER -> ch

lower(s) == [k \in 1..Len(s) |-> lower_char(s[k])]

\* entrada.lower() in ['q', 'quit', 'exit']
is_quit(entrada) ==
    lower(entrada) \in { <<"q">>, <<"q", "u", "i", "t">>, <<"e", "x", "i", "t">> }

\* every exception ends the loop
after_exception_break(exc) == "exited"

\* except KeyboardInterrupt: break / except Exception: continue
after_exception(exc) == IF exc = "KeyboardInterrupt" THEN "exited" ELSE "prompt"

\* the lines a user types, each with what it is: a quit word, a pair
\* int,int, a single int, or anything else
InputTable ==
    { [text |-> <<"q">>, clase |-> "quit", fila |-> 0, columna |-> 0],
      [text |-> <<" ", "Q", " ">>, clase |-> "quit", fila |-> 0, columna |-> 0],
      [text |-> <<"E", "x", "i", "t">>, clase |-> "quit", fila |-> 0, columna |-> 0],
      [text |-> <<"1", ",", "2">>, clase |-> "par", fila |-> 1, columna |-> 2],
      [text |-> <<" ", "9", " ", ",", "1", "5">>, clase |-> "par", fila |-> 9,
       columna |-> 15],
      [text |-> <<"3">>, clase |-> "entero", fila |-> 3, columna |-> 3],
      [text |-> <<"x", ",", "1">>, clase |-> "mal", fila |-> 0, columna |-> 0],
      [text |-> <<"1", ",", "2", ",", "3">>, clase |-> "mal", fila |-> 0, columna |-> 0],
      [text |-> <<>>, clase |-> "mal", fila |-> 0, columna |-> 0] }

InputEvents == { typed(r.text) : r \in InputTable } \cup {KeyboardInterrupt}

\* the last step of the loop: the prompt it read at, the event it read,
\* whether it called the encoder, and what it printed
NoStep == [prompt |-> "none", evento |-> EOFError, llamada |-> FALSE, impreso |-> "nada"]

step(pr, e, ll, im) == [prompt |-> pr, evento |-> e, llamada |-> ll, impreso |-> im]

\* what input() delivers next
next_event == IF ipos <= Len(entradas) THEN entradas[ipos] ELSE EOFError

InterInit ==
    /\ entradas \in UNION { [1..n -> InputEvents] : n \in 0..MaxInputs }
    /\ ipos = 1
    /\ ipc = "prompt"
    /\ ifila = 0
    /\ ultimo = NoStep
    /\ icalls = {}
    /\ eofs = 0

Prompting == ipc \in {"prompt", "prompt_col"}

\* input() raises KeyboardInterrupt at either prompt: break
InputInterrupt ==
    /\ Prompting
    /\ next_event.tipo = "KeyboardInterrupt"
    /\ ipc' = after_exception("KeyboardInterrupt")
    /\ ipos' = ipos + 1
    /\ ultimo' = step(ipc, next_event, FALSE, "nada")
    /\ UNCHANGED <<entradas, ifila, icalls, eofs, encVars, batchVars, fileVars, mainVars>>

\* input() raises EOFError at either prompt: "Error: ..." and continue
InputEOF ==
    /\ Prompting
    /\ next_event.tipo = "EOFError"
    /\ ipc' = after_exception("EOFError")
    /\ eofs' = min(eofs + 1, MaxEofs)
    /\ ultimo' = step(ipc, next_event, FALSE, "Error excepcion")
    /\ UNCHANGED <<entradas, ipos, ifila, icalls, encVars, batchVars, fileVars, mainVars>>

\* 'q', 'quit' or 'exit' at the coordinate prompt: break
ReadQuit ==
    /\ ipc = "prompt"
    /\ next_event.tipo = "texto"
    /\ is_quit(strip(next_event.text))
    /\ ipc' = "exited"
    /\ ipos' = ipos + 1
    /\ ultimo' = step(ipc, next_event, FALSE, "nada")
    /\ UNCHANGED <<entradas, ifila, icalls, eofs, encVars, batchVars, fileVars, mainVars>>

\* "fila,columna" with two integers: encoded and printed
ReadPairLine ==
    /\ ipc = "prompt"
    /\ next_event.tipo = "texto"
    /\ LET entrada == strip(next_event.text)
       IN  /\ ~is_quit(entrada)
           /\ has_comma(entrada)
           /\ py_int(split_comma(entrada)[1]).ok
           /\ py_int(split_comma(entrada)[2]).ok
           /\ LET fila == py_int(split_comma(entrada)[1]).val
                  columna == py_int(split_comma(entrada)[2]).val
              IN  icalls' = icalls \cup
                     {call(fila, columna, get_value_optimized_pure(fila, columna))}
    /\ ipos' = ipos + 1
    /\ ultimo' = step(ipc, next_event, TRUE, "resultado")
    /\ UNCHANGED <<entradas, ipc, ifila, eofs, encVars, batchVars, fileVars, mainVars>>

\* a single integer at the coordinate prompt: the column is asked for
ReadFila ==
    /\ ipc = "prompt"
    /\ next_event.tipo = "texto"
    /\ LET entrada == strip(next_event.text)
       IN  /\ ~is_quit(entrada)
           /\ ~has_comma(entrada)
           /\ py_int(entrada).ok
           /\ ifila' = py_int(entrada).val
    /\ ipc' = "prompt_col"
    /\ ipos' = ipos + 1
    /\ ultimo' = step(ipc, next_event, FALSE, "nada")
    /\ UNCHANGED <<entradas, icalls, eofs, encVars, batchVars, fileVars, mainVars>>

\* an integer at the column prompt: encoded and printed
ReadColumna ==
    /\ ipc = "prompt_col"
    /\ next_event.tipo = "texto"
    /\ py_int(strip(next_event.text)).ok
    /\ LET columna == py_int(strip(next_event.text)).val
       IN  icalls' = icalls \cup
              {call(ifila, columna, get_value_optimized_pure(ifila, columna))}
    /\ ipc' = "prompt"
    /\ ipos' = ipos + 1
    /\ ultimo' = step(ipc, next_event, TRUE, "resultado")
    /\ UNCHANGED <<entradas, ifila, eofs, encVars, batchVars, fileVars, mainVars>>

\* int raises ValueError at either prompt: the error line and continue
ReadInvalid ==
    /\ Prompting
    /\ next_event.tipo = "texto"
    /\ LET entrada == strip(next_event.text)
       IN  IF ipc = "prompt"
           THEN /\ ~is_quit(entrada)
                /\ IF has_comma(entrada)
                   THEN ~(py_int(split_comma(entrada)[1]).ok
                            /\ py_int(split_comma(entrada)[2]).ok)
                   ELSE ~py_int(entrada).ok
           ELSE ~py_int(entrada).ok
    /\ ipc' = "prompt"
    /\ ipos' = ipos + 1
    /\ ultimo' = step(ipc, next_event, FALSE,
                      IF ipc = "prompt" /\ has_comma(strip(next_event.text))
                      THEN "Error formato" ELSE "Error numeros")
    /\ UNCHANGED <<entradas, ifila, icalls, eofs, encVars, batchVars, fileVars, mainVars>>

----------------------------------------------------------------------------
\* Idle values of the variable groups a specification does not use

EncIdle ==
    /\ row = 0 /\ col = 0 /\ ref = {} /\ alt = {}

BatchIdle ==
    /\ coordenadas_lista = <<>> /\ idx = 0 /\ salida = <<>> /\ bpc = "idle"
    /\ retorno = NotReturned

FileIdle ==
    /\ file_exists = FALSE
    /\ lines = <<>> /\ line_num = 0 /\ coordenadas = <<>> /\ reportes = <<>>
    /\ fpc = "idle"

InterIdle ==
    /\ entradas = <<>> /\ ipos = 0 /\ ipc = "idle" /\ ifila = 0
    /\ ultimo = NoStep /\ icalls = {} /\ eofs = 0

MainIdle ==
    /\ vpc = "idle" /\ vk = 0 /\ all_correct = TRUE /\ stdout = <<>>
    /\ test_coords = <<>> /\ calls_pure = {} /\ calls_simd = {}

----------------------------------------------------------------------------
\* Spec: one call of each encoder variant on a coordinate (row, col) >= 0.
\* ref and alt hold the returned byte once the variant has returned.

Init ==
    /\ row \in 0..MaxRow
    /\ col \in 0..MaxCol
    /\ ref = {}
    /\ alt = {}
    /\ BatchIdle /\ FileIdle /\ MainIdle /\ InterIdle

CallPure ==
    /\ ref = {}
    /\ ref' = {get_value_optimized_pure(row, col)}
    /\ UNCHANGED <<row, col, alt, batchVars, fileVars, mainVars, interVars>>

CallSimd ==
    /\ alt = {}
    /\ alt' = {get_value_simd_optimized(row, col)}
    /\ UNCHANGED <<row, col, ref, batchVars, fileVars, mainVars, interVars>>

Next == CallPure \/ CallSimd

Spec == Init /\ [][Next]_vars

----------------------------------------------------------------------------
\* Claims about the encoder variants (checked under Spec)

BothReturned == ref # {} /\ alt # {}

\* C1: for every (row, col) >= 0 the reference variant and the alternate
\* variant return the same byte.
C1_VariantsAgree == BothReturned => ref = alt

\* C3: the byte each variant returns lies in 0..255, also when the unmasked
\* intermediate result is 256 or more.
C3_RangeByte ==
    /\ \A v \in ref : v \in 0..255
    /\ \A v \in alt : v \in 0..255

\* both variants returned, from an unmasked intermediate result >= 256
C3_Witness ==
    /\ BothReturned
    /\ block_row(row) >= 16
    /\ final_result(row, col) >= 256
    /\ simd_result(row, col) >= 256

NonSpecialCol == ~(col \div 8 = 1 /\ col % 8 = 7)

\* C4: for a non-special column, the reference variant eight rows further
\* down returns the byte of (row, col) plus 16, modulo 256.
C4_RowPeriodicity ==
    \A v \in ref :
        NonSpecialCol => get_value_optimized_pure(row + 8, col) = (v + 16) % 256

\* the reference returned a byte of a non-special column that wraps at 256
C4_Witness ==
    \E v \in ref : NonSpecialCol /\ v + 16 >= 256
                     /\ get_value_optimized_pure(row + 8, col) < 16

\* col15_base + col15_adjustment over local_row 0..7
SpecialCycle == <<4, 0, 4, 8, 12, 8, 12, 16>>

\* C5: at column 15 the reference variant returns the override value
\* (SpecialCycle[row mod 8] + 16 * (row div 8)) mod 256, which is not the
\* normal base + row_offset + block_offset value; at every other column,
\* also those with col mod 8 = 7, it returns the normal value.
C5_OverrideAtCol15 ==
    \A v \in ref :
        IF col = 15
        THEN /\ v = (SpecialCycle[(row % 8) + 1] + 16 * (row \div 8)) % 256
             /\ v # normal_result(row, col) % 256
        ELSE v = normal_result(row, col) % 256

\* the reference returned at column 15, in a block below the first
C5_Witness == ref # {} /\ col = 15 /\ row \div 8 >= 1

\* C6: the reference variant has column period 8 away from column 15:
\* encode(row, col + 8) = encode(row, col) unless col is 7 or 15, and
\* encode(row, col) = encode(row, col mod 8) unless col is 15.
C6_ColumnPeriodicity ==
    \A v \in ref :
        /\ col \notin {7, 15} => get_value_optimized_pure(row, col + 8) = v
        /\ col # 15 => v = get_value_optimized_pure(row, col % 8)

\* the reference returned at a column beyond 15 with local_col 7
C6_Witness == ref # {} /\ col > 15 /\ col % 8 = 7

----------------------------------------------------------------------------
\* SpecBatch: one call of batch_search

InitBatch == BatchInit /\ EncIdle /\ FileIdle /\ MainIdle /\ InterIdle

NextBatch == BatchStart \/ BatchEntry \/ BatchAbort \/ BatchReturn

SpecBatch == InitBatch /\ [][NextBatch]_vars

\* the lines printed for the entries, in print order
ResultLines == SubSeq(salida, 3, Len(salida))

Malformed(e) ==
    \/ ~is_int(e[1]) \/ ~is_int(e[2])
    \/ e[1].val < 0 \/ e[2].val < 0

AllValid == \A k \in 1..Len(coordenadas_lista) : ~Malformed(coordenadas_lista[k])

\* C7: every malformed entry (non-integer or negative) is reported as an
\* error for that entry, never printed with a value, and never ends the batch.
C7_MalformedReportedPerEntry ==
    /\ bpc # "raised"
    /\ \A k \in 1..Len(ResultLines) :
          Malformed(coordenadas_lista[k]) => ResultLines[k].tipo = "ERROR"

\* C8 as stated: given n valid pairs, batch_search returns the sequence of
\* the n bytes in input order.
C8_ReturnsByteSequence ==
    (bpc = "done" /\ AllValid) =>
        /\ ~retorno.is_none
        /\ retorno.items = [k \in 1..Len(coordenadas_lista) |->
              get_value_optimized_pure(coordenadas_lista[k][1].val,
                                       coordenadas_lista[k][2].val)]

\* C8 amended: given n valid pairs, batch_search prints exactly n result
\* lines in input order, line i carrying row_i, col_i and encode(row_i, col_i),
\* and returns None.
C8_PrintsInOrder ==
    (bpc = "done" /\ AllValid) =>
        /\ Len(ResultLines) = Len(coordenadas_lista)
        /\ \A k \in 1..Len(coordenadas_lista) :
              /\ ResultLines[k].tipo = "valor"
              /\ ResultLines[k].fila = coordenadas_lista[k][1].val
              /\ ResultLines[k].columna = coordenadas_lista[k][2].val
              /\ ResultLines[k].valor =
                    get_value_optimized_pure(coordenadas_lista[k][1].val,
                                             coordenadas_lista[k][2].val)
        /\ retorno = ReturnNone

\* a finished batch of three valid pairs with three different bytes
C8_Witness ==
    /\ bpc = "done" /\ AllValid
    /\ Len(coordenadas_lista) = 3
    /\ Cardinality({ResultLines[k].valor : k \in 1..Len(ResultLines)}) = 3

----------------------------------------------------------------------------
\* SpecFile: one call of read_coordinates_from_file

InitFile == FileInit /\ EncIdle /\ BatchIdle /\ MainIdle /\ InterIdle

NextFile ==
    FileOpen \/ FileNotFound \/ ReadSkip \/ ReadPair \/ ReadIgnored \/ FileReturn

SpecFile == InitFile /\ [][NextFile]_vars

Expect(text) == CHOOSE r \in FileLineTable : r.text = text

RECURSIVE ExpectedPairs(_)
ExpectedPairs(ls) ==
    IF ls = <<>> THEN <<>>
    ELSE (IF Expect(Head(ls)).expect = "pair"
          THEN <<<<Expect(Head(ls)).fila, Expect(Head(ls)).columna>>>>
          ELSE <<>>) \o ExpectedPairs(Tail(ls))

MalformedLineNumbers ==
    { n \in 1..Len(lines) : Expect(lines[n]).expect = "malformed" }

\* C9: read_coordinates_from_file returns, in file order, one pair per line
\* that (once stripped) is non-blank, does not start with '#' and reads
\* int,int; blank and '#' lines are skipped without a report; every other
\* line is reported once, with its line number, and reading goes on.
C9_FileReading ==
    (fpc = "done" /\ file_exists) =>
        /\ coordenadas = ExpectedPairs(lines)
        /\ { r.line_num : r \in { reportes[k] : k \in 1..Len(reportes) } }
              = MalformedLineNumbers
        /\ Len(reportes) = Cardinality(MalformedLineNumbers)
        /\ \A k \in 1..(Len(reportes) - 1) :
              reportes[k].line_num < reportes[k + 1].line_num
        /\ line_num = Len(lines)

\* a file read to its end that held a malformed line, then a skipped line,
\* then a pair
C9_Witness ==
    /\ fpc = "done" /\ file_exists
    /\ Len(lines) = 3
    /\ Expect(lines[1]).expect = "malformed"
    /\ Expect(lines[2]).expect = "skip"
    /\ Expect(lines[3]).expect = "pair"
    /\ Len(coordenadas) = 1 /\ Len(reportes) = 1

----------------------------------------------------------------------------
\* SpecMain: main without arguments

InitMain == MainInit /\ EncIdle /\ BatchIdle /\ FileIdle /\ InterIdle

NextMain ==
    \/ MainStart \/ VerifyCase \/ VerifyResultado \/ Extrapolate
    \/ BenchStart \/ BenchPure \/ BenchPureEnd \/ BenchSimd \/ BenchPrint

SpecMain == InitMain /\ [][NextMain]_vars

Printed(t) == \E k \in 1..Len(stdout) : stdout[k].tipo = t

CaseLines == SelectSeq(stdout, LAMBDA l : l.tipo = "caso")

\* entries of the golden table the description names
NamedGolden ==
    { <<0, 0, 1>>, <<0, 1, 0>>, <<0, 7, 0>>, <<0, 15, 4>>, <<3, 15, 8>>,
      <<7, 15, 16>>, <<8, 0, 17>>, <<8, 15, 20>>, <<15, 15, 32>> }

\* C2: the reference variant returns the expected byte for each of the 23
\* entries of the golden table, so the harness ends with all_correct true
\* and prints CORRECTO.
C2_GoldenTable ==
    LET cl == CaseLines
    IN  /\ all_correct
        /\ \A k \in 1..Len(cl) :
              /\ cl[k].result = test_cases[k][3]
              /\ cl[k].row = test_cases[k][1]
              /\ cl[k].col = test_cases[k][2]
              /\ cl[k].ok
        /\ ~Printed("ERROR")
        /\ vpc \in {"extrap", "bench_pure", "bench_simd", "done"} =>
              /\ Len(cl) = 23
              /\ Printed("CORRECTO")
              /\ NamedGolden \subseteq
                    { <<cl[k].row, cl[k].col, cl[k].result>> : k \in 1..Len(cl) }

\* the run finished after checking all 23 entries and printing CORRECTO
C2_Witness ==
    /\ vpc = "done" /\ all_correct /\ Printed("CORRECTO")
    /\ Len(CaseLines) = Len(test_cases)

\* C10: when the run has evaluated both variants on a coordinate on which
\* they return different bytes, it has reported a mismatch by the time it
\* finishes (it does not finish with CORRECTO as its only verdict).
C10_MismatchNeverSilent ==
    vpc = "done" =>
        \A p \in calls_pure : \A q \in calls_simd :
            (p.row = q.row /\ p.col = q.col /\ p.value # q.value)
                => Printed("mismatch")

----------------------------------------------------------------------------
\* Claims about the parts of the encoder (checked under Spec)

\* the base pattern over local_col 0..7
BaseCycle == <<1, 0, 1, 2, 3, 2, 3, 0>>

\* the row offset over local_row 0..7
RowCycle == <<0, 4, 0, 4, 8, 12, 8, 12>>

\* C11: in the reference variant base_value after the column-7 correction
\* depends on local_col = col mod 8 only and equals
\* [1,0,1,2,3,2,3,0][local_col]; it is 0 at local_col 7, lies in 0..3, and
\* the correction changes nothing for local_col # 7.
C11_BasePattern ==
    ref # {} =>
        LET lc == local_col(col)
            b == base_value(lc)
        IN  /\ lc = col % 8
            /\ b = BaseCycle[(col % 8) + 1]
            /\ b \in 0..3
            /\ (lc = 7 => b = 0)
            /\ (lc # 7 => b = blended_base(lc))

\* the reference returned for an odd local column with base 2, in a column
\* block and a row block other than the first
C11_Witness ==
    /\ ref # {} /\ col % 8 = 5 /\ col \div 8 >= 2 /\ row \div 8 >= 1
    /\ base_value(local_col(col)) = 2

\* C12: for col # 15 the reference variant returns
\* (base_value + RowCycle[row mod 8] + 16 * (row div 8)) mod 256; the offsets
\* are added unmasked and the mask is applied once, to the final sum.
C12_NormalFormula ==
    \A v \in ref :
        col # 15 =>
            /\ row_offset(local_row(row)) = RowCycle[(row % 8) + 1]
            /\ block_offset(block_row(row)) = 16 * (row \div 8)
            /\ final_result(row, col) =
                  BaseCycle[(col % 8) + 1] + RowCycle[(row % 8) + 1]
                    + 16 * (row \div 8)
            /\ v = (BaseCycle[(col % 8) + 1] + RowCycle[(row % 8) + 1]
                      + 16 * (row \div 8)) % 256

\* the reference returned, away from column 15, from an unmasked sum of 256
\* or more with a row offset of 12
C12_Witness ==
    /\ ref # {} /\ col # 15
    /\ final_result(row, col) >= 256
    /\ row % 8 = 7

\* C13: for both variants and every column, 15 included,
\* f(row + 8, col) = (f(row, col) + 16) mod 256, and so
\* f(row + 128, col) = f(row, col).
C13_RowLawBothVariants ==
    /\ \A v \in ref :
          /\ get_value_optimized_pure(row + 8, col) = (v + 16) % 256
          /\ get_value_optimized_pure(row + 128, col) = v
    /\ \A v \in alt :
          /\ get_value_simd_optimized(row + 8, col) = (v + 16) % 256
          /\ get_value_simd_optimized(row + 128, col) = v

\* both variants returned at column 15, where adding 16 wraps at 256
C13_Witness ==
    /\ BothReturned /\ col = 15
    /\ \E v \in ref : v + 16 >= 256
    /\ \E v \in alt : v + 16 >= 256

----------------------------------------------------------------------------
\* SpecInteractive: one call of interactive_search

InitInteractive == InterInit /\ EncIdle /\ BatchIdle /\ FileIdle /\ MainIdle

NextInteractive ==
    \/ InputInterrupt \/ InputEOF \/ ReadQuit \/ ReadPairLine
    \/ ReadFila \/ ReadColumna \/ ReadInvalid

SpecInteractive == InitInteractive /\ [][NextInteractive]_vars

InputClass(text) == (CHOOSE r \in InputTable : r.text = text).clase

InputRow(text) == CHOOSE r \in InputTable : r.text = text

\* the last step read a quit word at the coordinate prompt
LastWasQuit ==
    /\ ultimo.evento.tipo = "texto"
    /\ ultimo.prompt = "prompt"
    /\ InputClass(ultimo.evento.text) = "quit"

\* the last step read typed integers: a pair at the coordinate prompt or an
\* integer at the column prompt
LastWasCoordinate ==
    /\ ultimo.evento.tipo = "texto"
    /\ \/ ultimo.prompt = "prompt" /\ InputClass(ultimo.evento.text) = "par"
       \/ ultimo.prompt = "prompt_col" /\ InputClass(ultimo.evento.text) = "entero"

\* the pairs that can have been typed: on one line, or as two integers
TypedCoordinates ==
    { <<r.fila, r.columna>> : r \in { x \in InputTable : x.clase = "par" } }
      \cup { <<r.fila, q.fila>> : r, q \in { x \in InputTable : x.clase = "entero" } }

\* C14: interactive_search leaves its loop only on 'q', 'quit' or 'exit'
\* at the coordinate prompt or on KeyboardInterrupt; after every other event
\* it is back at a prompt, so once the input stream is exhausted it never
\* leaves; typed coordinates are encoded and printed, and the encoder is
\* never called with text that failed integer parsing.
C14_InteractiveLoop ==
    /\ ipc = "exited" <=>
          (ultimo.prompt # "none"
             /\ (ultimo.evento.tipo = "KeyboardInterrupt" \/ LastWasQuit))
    /\ eofs > 0 => (ipc = "prompt" /\ ipos > Len(entradas))
    /\ ultimo.evento.tipo = "EOFError" /\ ultimo.prompt # "none" =>
          (ipc = "prompt" /\ ~ultimo.llamada /\ ultimo.impreso = "Error excepcion")
    /\ ultimo.llamada <=> LastWasCoordinate
    /\ LastWasCoordinate =>
          (ipc = "prompt" /\ ultimo.impreso = "resultado")
    /\ (ultimo.evento.tipo = "texto" /\ ~LastWasCoordinate /\ ~LastWasQuit) =>
          IF ultimo.prompt = "prompt" /\ InputClass(ultimo.evento.text) = "entero"
          THEN ipc = "prompt_col" /\ ifila = InputRow(ultimo.evento.text).fila
          ELSE ipc = "prompt"
                 /\ ultimo.impreso \in {"Error formato", "Error numeros"}
    /\ \A c \in icalls :
          /\ <<c.row, c.col>> \in TypedCoordinates
          /\ c.value = get_value_optimized_pure(c.row, c.col)

\* a coordinate was encoded, the stream ended, and the loop has handled
\* EOFError more than once and is at the prompt again
C14_Witness ==
    /\ icalls # {}
    /\ ipos > Len(entradas)
    /\ eofs >= 2
    /\ ipc = "prompt"
    /\ ultimo.evento.tipo = "EOFError"

====
